---- MODULE Spec2Model ----
(***************************************************************************)
(* Model of the autoversion GitHub Action (src/src/index.js).             *)
(*                                                                         *)
(* JavaScript strings are modelled as sequences of one-character strings,  *)
(* so that formatting (template literals), parsing (parseInt, split) and   *)
(* matching (String.replace, startsWith, the two regular expressions) are  *)
(* computed the way the code computes them.  The remote repository is the  *)
(* variable store, a function from tag names to commit ids.  A run of the  *)
(* action is a sequence of steps separated by the awaits of run().         *)
(***************************************************************************)
EXTENDS Integers, Sequences, FiniteSets, TLC

(***************************************************************************)
(* Bounds of the model.                                                    *)
(***************************************************************************)
MaxRuns == 2
MaxFailures == 1

(***************************************************************************)
(* Character strings.                                                      *)
(***************************************************************************)
DigitChars == <<"0", "1", "2", "3", "4", "5", "6", "7", "8", "9">>

IsDigit(c) == \E i \in 1..10 : DigitChars[i] = c

DigitVal(c) == (CHOOSE i \in 1..10 : DigitChars[i] = c) - 1

\* Value of a non-empty run of decimal digits.
RECURSIVE DigitsVal(_)
DigitsVal(ds) ==
  IF ds = <<>> THEN 0
  ELSE 10 * DigitsVal(SubSeq(ds, 1, Len(ds) - 1)) + DigitVal(ds[Len(ds)])

\* `${n}` for a non-negative integer n: its decimal representation.
RECURSIVE ToStr(_)
ToStr(n) ==
  IF n < 10 THEN <<DigitChars[n + 1]>>
  ELSE ToStr(n \div 10) \o <<DigitChars[(n % 10) + 1]>>

\* Length of the longest run of digits of s that starts at position i.
RECURSIVE DigitRun(_, _)
DigitRun(s, i) ==
  IF i <= Len(s) /\ IsDigit(s[i]) THEN 1 + DigitRun(s, i + 1) ELSE 0

\* s has the literal lit at position i.
HasAt(s, i, lit) ==
  /\ i >= 1
  /\ i + Len(lit) - 1 <= Len(s)
  /\ SubSeq(s, i, i + Len(lit) - 1) = lit

\* String.prototype.indexOf, 1-based; 0 when lit does not occur.
IndexOf(s, lit) ==
  IF \E i \in 1..(Len(s) + 1) : HasAt(s, i, lit)
  THEN CHOOSE i \in 1..(Len(s) + 1) :
         /\ HasAt(s, i, lit)
         /\ \A j \in 1..(i - 1) : ~HasAt(s, j, lit)
  ELSE 0

\* String.prototype.replace with a string pattern: the first occurrence only.
ReplaceFirst(s, lit, rep) ==
  LET i == IndexOf(s, lit)
  IN IF i = 0 THEN s
     ELSE SubSeq(s, 1, i - 1) \o rep \o SubSeq(s, i + Len(lit), Len(s))

StartsWith(s, lit) == HasAt(s, 1, lit)

\* String.prototype.split('.'), the separator being a single character.
RECURSIVE Split(_, _)
Split(s, sep) ==
  LET i == IndexOf(s, <<sep>>)
  IN IF i = 0 THEN <<s>>
     ELSE <<SubSeq(s, 1, i - 1)>> \o Split(SubSeq(s, i + 1, Len(s)), sep)

\* Array.prototype.join.
RECURSIVE Join(_, _)
Join(parts, sep) ==
  IF parts = <<>> THEN <<>>
  ELSE IF Len(parts) = 1 THEN parts[1]
  ELSE parts[1] \o sep \o Join(Tail(parts), sep)

\* The values JavaScript has and the naturals have not.
NaN == -1
Undefined == <<"undefined">>
Null == [null |-> TRUE]

\* parseInt: the value of the leading digits, NaN when there is none
\* (signs, white space and radix prefixes are outside the alphabet).
ParseInt(s) ==
  IF s = Undefined THEN NaN
  ELSE LET n == DigitRun(s, 1)
       IN IF n = 0 THEN NaN ELSE DigitsVal(SubSeq(s, 1, n))

\* x || 0 for a number x: NaN and 0 are falsy.
OrZero(x) == IF x = NaN THEN 0 ELSE x

\* s || dflt for a string s: the empty string is falsy.
OrDefault(s, dflt) == IF s = <<>> THEN dflt ELSE s

\* `${major}.${minor}.${patch}`
VersionString(v) ==
  ToStr(v.major) \o <<".">> \o ToStr(v.minor) \o <<".">> \o ToStr(v.patch)

(***************************************************************************)
(* Literals of the source.                                                 *)
(***************************************************************************)
RefsHeads == <<"r", "e", "f", "s", "/", "h", "e", "a", "d", "s", "/">>
ReleaseSlash == <<"r", "e", "l", "e", "a", "s", "e", "/">>
DefaultPrefix == <<"v">>
Dot == <<".">>
Backslash == "\\"

(***************************************************************************)
(* getVersionFromPackageJson.  The manifest is what the file system holds: *)
(* no file, a file whose read or parse throws, or a parsed object whose    *)
(* version field is a string (empty when the field is missing).            *)
(***************************************************************************)
NthOrUndefined(parts, i) == IF i <= Len(parts) THEN parts[i] ELSE Undefined

\* A slip of index: the patch is read from the minor part.
getVersionFromPackageJson_PatchFromMinor(manifest) ==
  IF manifest.kind = "nofile" THEN Null
  ELSE IF manifest.kind = "throws" THEN Null
  ELSE IF manifest.version = <<>> THEN Null
  ELSE LET versionParts == Split(manifest.version, ".")
       IN [major |-> OrZero(ParseInt(NthOrUndefined(versionParts, 1))),
           minor |-> OrZero(ParseInt(NthOrUndefined(versionParts, 2))),
           patch |-> OrZero(ParseInt(NthOrUndefined(versionParts, 2)))]

getVersionFromPackageJson(manifest) ==
  IF manifest.kind = "nofile" THEN Null
  ELSE IF manifest.kind = "throws" THEN Null
  ELSE IF manifest.version = <<>> THEN Null
  ELSE LET versionParts == Split(manifest.version, ".")
       IN [major |-> OrZero(ParseInt(NthOrUndefined(versionParts, 1))),
           minor |-> OrZero(ParseInt(NthOrUndefined(versionParts, 2))),
           patch |-> OrZero(ParseInt(NthOrUndefined(versionParts, 3)))]

(***************************************************************************)
(* getVersionFromBranchName: the first match of                            *)
(*   /release\/v?(\d+)(?:\.(\d+))?(?:\.(\d+))?/                            *)
(* in the branch name.  All quantifiers are greedy and everything after    *)
(* the first group is optional, so the match at a position is the greedy   *)
(* one.                                                                    *)
(***************************************************************************)
\* An optional group (?:\.(\d+))? tried at position p: the captured digits
\* and the position after the group; Undefined when the group does not
\* take part in the match.
OptGroup(s, p) ==
  IF p <= Len(s) /\ s[p] = "." /\ DigitRun(s, p + 1) > 0
  THEN [cap |-> SubSeq(s, p + 1, p + DigitRun(s, p + 1)),
        next |-> p + 1 + DigitRun(s, p + 1)]
  ELSE [cap |-> Undefined, next |-> p]

\* The major written (\d*): a match needs no digit after release/.
BranchMatchAt_EmptyMajor(s, i) ==
  IF ~HasAt(s, i, ReleaseSlash) THEN Null
  ELSE LET j0 == i + Len(ReleaseSlash)
           j == IF j0 <= Len(s) /\ s[j0] = "v" THEN j0 + 1 ELSE j0
           n == DigitRun(s, j)
           g2 == OptGroup(s, j + n)
           g3 == OptGroup(s, g2.next)
       IN [m1 |-> SubSeq(s, j, j + n - 1), m2 |-> g2.cap, m3 |-> g3.cap]

\* The match that starts at position i: its three groups, or Null.
BranchMatchAt(s, i) ==
  IF ~HasAt(s, i, ReleaseSlash) THEN Null
  ELSE LET j0 == i + Len(ReleaseSlash)
           j == IF j0 <= Len(s) /\ s[j0] = "v" THEN j0 + 1 ELSE j0
           n == DigitRun(s, j)
       IN IF n = 0 THEN Null
          ELSE LET g2 == OptGroup(s, j + n)
                   g3 == OptGroup(s, g2.next)
               IN [m1 |-> SubSeq(s, j, j + n - 1), m2 |-> g2.cap, m3 |-> g3.cap]

BranchMatch(s) ==
  IF \E i \in 1..Len(s) : BranchMatchAt(s, i) # Null
  THEN BranchMatchAt(s, CHOOSE i \in 1..Len(s) :
                          /\ BranchMatchAt(s, i) # Null
                          /\ \A j \in 1..(i - 1) : BranchMatchAt(s, j) = Null)
  ELSE Null

getVersionFromBranchName(branchName0) ==
  LET branchName == ReplaceFirst(branchName0, RefsHeads, <<>>)
      match == BranchMatch(branchName)
  IN IF match # Null
     THEN [major |-> OrZero(ParseInt(match.m1)),
           minor |-> OrZero(ParseInt(match.m2)),
           patch |-> OrZero(ParseInt(match.m3))]
     ELSE Null

(***************************************************************************)
(* getNextPatchVersion.  The pattern is                                    *)
(*   ^<escaped prefix><major>\.<minor>\.(\d+)$                             *)
(* A pattern is a sequence of characters in which a backslash makes the    *)
(* next character literal and an unescaped dot matches any character.      *)
(***************************************************************************)
RegexSpecials == {".", "*", "+", "?", "^", "$", "{", "}", "(", ")", "|", "[", "]", Backslash}

\* prefix.replace(/[.*+?^${}()|[\]\\]/g, '\\$&')
\* The prefix put into the pattern as it is.
escapeRegExp_None(s) == s

RECURSIVE escapeRegExp(_)
escapeRegExp(s) ==
  IF s = <<>> THEN <<>>
  ELSE (IF Head(s) \in RegexSpecials THEN <<Backslash, Head(s)>> ELSE <<Head(s)>>)
       \o escapeRegExp(Tail(s))

\* The position after the match of the quantifier-free pattern pat against
\* s from position i, 0 when it does not match.
RECURSIVE MatchPlain(_, _, _)
MatchPlain(pat, s, i) ==
  IF pat = <<>> THEN i
  ELSE IF i > Len(s) THEN 0
  ELSE IF Head(pat) = Backslash /\ Len(pat) >= 2
       THEN IF s[i] = pat[2] THEN MatchPlain(Tail(Tail(pat)), s, i + 1) ELSE 0
  ELSE IF Head(pat) = "." \/ Head(pat) = s[i]
       THEN MatchPlain(Tail(pat), s, i + 1)
  ELSE 0

\* tag.name.match(pattern): the captured patch digits, or Null.
TagPatternMatch(name, prefix, major, minor) ==
  LET pat == escapeRegExp(prefix) \o ToStr(major) \o <<Backslash, ".">>
             \o ToStr(minor) \o <<Backslash, ".">>
      p == MatchPlain(pat, name, 1)
  IN IF p = 0 THEN Null
     ELSE IF DigitRun(name, p) > 0 /\ p + DigitRun(name, p) = Len(name) + 1
          THEN [m1 |-> SubSeq(name, p, Len(name))]
          ELSE Null

\* The loop with maxPatch initialised to 0 instead of -1.
MaxPatch_FromZero(tags, prefix, major, minor) ==
  LET matching == {t \in tags : TagPatternMatch(t, prefix, major, minor) # Null}
      patchNums == {ParseInt(TagPatternMatch(t, prefix, major, minor).m1) : t \in matching}
  IN IF patchNums = {} THEN 0
     ELSE CHOOSE m \in patchNums : \A n \in patchNums : n <= m

\* The loop over the listed tags: the greatest captured patch, -1 when no
\* tag matches.
MaxPatch(tags, prefix, major, minor) ==
  LET matching == {t \in tags : TagPatternMatch(t, prefix, major, minor) # Null}
      patchNums == {ParseInt(TagPatternMatch(t, prefix, major, minor).m1) : t \in matching}
  IN IF patchNums = {} THEN -1
     ELSE CHOOSE m \in patchNums : \A n \in patchNums : n <= m

\* The value returned when listTags resolved with the page tags.
getNextPatchVersion(tags, tagPrefixInput, major, minor) ==
  MaxPatch(tags, OrDefault(tagPrefixInput, DefaultPrefix), major, minor) + 1

\* listTags is asked for one page of per_page tags.
PerPage == 100

\* The sets obtained from S by leaving out n of its elements.
RECURSIVE Without(_, _)
Without(S, n) ==
  IF n = 0 THEN {S} ELSE UNION {Without(S \ {t}, n - 1) : t \in S}

\* The pages listTags can resolve with: all tags when they fit in a page,
\* else some PerPage of them.
Pages(tagNames) ==
  IF Cardinality(tagNames) <= PerPage THEN {tagNames}
  ELSE Without(tagNames, Cardinality(tagNames) - PerPage)

(***************************************************************************)
(* The three tag names of run().                                           *)
(***************************************************************************)
MajorTag(tagPrefix, v) == tagPrefix \o ToStr(v.major)
\* The minor tag without the dot between major and minor.
MinorTag_NoDot(tagPrefix, v) == tagPrefix \o ToStr(v.major) \o ToStr(v.minor)

MinorTag(tagPrefix, v) == tagPrefix \o ToStr(v.major) \o Dot \o ToStr(v.minor)
PatchTag(tagPrefix, v) ==
  tagPrefix \o ToStr(v.major) \o Dot \o ToStr(v.minor) \o Dot \o ToStr(v.patch)

TagNames(tagPrefix, v) ==
  <<MajorTag(tagPrefix, v), MinorTag(tagPrefix, v), PatchTag(tagPrefix, v)>>

(***************************************************************************)
(* Inputs of a run: the action inputs (core.getInput), the GitHub context  *)
(* (context.ref, context.sha) and the package.json of the working          *)
(* directory.                                                              *)
(***************************************************************************)
RefMain == RefsHeads \o <<"m", "a", "i", "n">>
RefV1 == RefsHeads \o ReleaseSlash \o <<"v", "1">>
RefV2 == RefsHeads \o ReleaseSlash \o <<"v", "2">>
RefV1x2 == RefsHeads \o ReleaseSlash \o <<"v", "1", ".", "2">>
RefV1x2x3 == RefsHeads \o ReleaseSlash \o <<"v", "1", ".", "2", ".", "3">>
RefV1x2x0 == RefsHeads \o ReleaseSlash \o <<"v", "1", ".", "2", ".", "0">>
RefNoVersion == RefsHeads \o ReleaseSlash \o <<"x">>

Refs == {RefMain, RefV1, RefV2, RefV1x2, RefV1x2x3, RefV1x2x0, RefNoVersion}

NoFile == [kind |-> "nofile", version |-> <<>>]
ReadThrows == [kind |-> "throws", version |-> <<>>]
Manifest(v) == [kind |-> "json", version |-> v]

Manifests ==
  {NoFile, ReadThrows, Manifest(<<>>),
   Manifest(<<"1", ".", "1", ".", "0">>),
   Manifest(<<"2", ".", "1", ".", "3">>)}

VersionSources == {"", "manual", "package.json"}
TagPrefixes == {<<>>, <<"r", ".">>}
CreateTagsInputs == {"true", "false"}
Tokens == {"", "token"}

\* The manual inputs major-version, minor-version, patch-version.
ManualInputs ==
  {<<<<>>, <<>>, <<>>>>,
   <<<<"3">>, <<"2">>, <<"1">>>>,
   <<<<"0">>, <<"1", "0">>, <<"2">>>>,
   <<<<"1">>, <<"0">>, <<"x">>>>}

\* The part of the inputs that is the same for every run of a behaviour:
\* the with: inputs of the workflow step and the branch the workflow is
\* triggered on.  The inputs a version source does not read are left at
\* their defaults.
Workflows ==
  {[ref |-> r, versionSource |-> vs, tagPrefix |-> tp, manual |-> mi] :
     r \in Refs, vs \in VersionSources, tp \in TagPrefixes,
     mi \in ManualInputs}

RelevantWorkflows ==
  {w \in Workflows :
     /\ w.versionSource # "manual" => w.manual = <<<<>>, <<>>, <<>>>>
     /\ w.tagPrefix # <<>> => w.ref \in {RefMain, RefV1}}

\* The inputs a run of the workflow w can start with.  A tagging run in auto
\* mode falls back to the branch name on a missing package.json; the
\* unreadable and the version-less package.json are tried on the other runs.
AllRunInputs(w) ==
  {[ref |-> w.ref, versionSource |-> w.versionSource,
    tagPrefix |-> w.tagPrefix, manual |-> w.manual,
    createTags |-> ct, token |-> tk, manifest |-> mf] :
     ct \in CreateTagsInputs, tk \in Tokens,
     mf \in IF w.versionSource = "manual" THEN {NoFile} ELSE Manifests}

RunInputs(w) ==
  {i \in AllRunInputs(w) :
     (i.versionSource = "" /\ i.createTags # "false" /\ i.token # "")
       => i.manifest \notin {ReadThrows, Manifest(<<>>)}}

\* The tags of the repository before the first run, all on commit 0.
V1 == <<"v", "1">>
V1x0 == <<"v", "1", ".", "0">>
V1x0x0 == <<"v", "1", ".", "0", ".", "0">>

InitStores ==
  {<<>>,
   [t \in {V1, V1x0, V1x0x0} |-> 0]}

(***************************************************************************)
(* State.                                                                  *)
(***************************************************************************)
VARIABLES
  workflow,     \* the workflow inputs and branch of the behaviour
  store,        \* the tags of the remote repository: tag name -> commit
  store0,       \* the tags of the repository when the current run started
  runs,         \* number of runs started; the commit of run n is n
  failures,     \* number of remote calls that failed
  pc,           \* "idle", then the await the current run is suspended at
  inp,          \* the inputs of the current run
  sha,          \* context.sha of the current run
  version,      \* the local variable version of run()
  k,            \* which of the three tags is being processed
  tagExists,    \* the local variable tagExists of createOrUpdateTag
  createdTags,  \* the local variable createdTags of run()
  outputs,      \* what core.setOutput has set: pairs <<name, value>>
  failedMsg,    \* what core.setFailed was called with, "" if it was not
  warnings,     \* what core.warning was called with
  manifestRead, \* whether the run called getVersionFromPackageJson
  errors,       \* the tags core.error was called for
  peer,         \* the local state of a second, concurrent run
  calls         \* the remote calls of the current run, in order

vars == <<workflow, store, store0, runs, failures, pc, inp, sha, version, k, tagExists,
          createdTags, outputs, failedMsg, warnings, manifestRead, errors, calls,
          peer>>

NoInputs == [ref |-> <<>>, versionSource |-> "", tagPrefix |-> <<>>,
             createTags |-> "", token |-> "", manual |-> <<<<>>, <<>>, <<>>>>,
             manifest |-> NoFile]

\* The local state of a run that has not started.
IdleRun ==
  [store0 |-> <<>>, pc |-> "idle", inp |-> NoInputs, sha |-> 0,
   version |-> Null, k |-> 0, tagExists |-> FALSE, createdTags |-> <<>>,
   outputs |-> {}, failedMsg |-> "", warnings |-> {},
   manifestRead |-> FALSE, errors |-> <<>>, calls |-> <<>>]

\* The state before the first run of the workflow w on the repository st.
InitWith(w, st) ==
  /\ workflow = w
  /\ store = st
  /\ store0 = st
  /\ runs = 0
  /\ failures = 0
  /\ pc = "idle"
  /\ inp = NoInputs
  /\ sha = 0
  /\ version = Null
  /\ k = 0
  /\ tagExists = FALSE
  /\ createdTags = <<>>
  /\ outputs = {}
  /\ failedMsg = ""
  /\ warnings = {}
  /\ manifestRead = FALSE
  /\ errors = <<>>
  /\ calls = <<>>
  /\ peer = IdleRun

Init ==
  /\ workflow \in RelevantWorkflows
  /\ store \in InitStores
  /\ store0 = store
  /\ peer = IdleRun
  /\ runs = 0
  /\ failures = 0
  /\ pc = "idle"
  /\ inp = NoInputs
  /\ sha = 0
  /\ version = Null
  /\ k = 0
  /\ tagExists = FALSE
  /\ createdTags = <<>>
  /\ outputs = {}
  /\ failedMsg = ""
  /\ warnings = {}
  /\ manifestRead = FALSE
  /\ errors = <<>>
  /\ calls = <<>>

(***************************************************************************)
(* run(), lines 138-258.                                                   *)
(***************************************************************************)
CreateTags(i) == i.createTags # "false"
TagPrefix(i) == OrDefault(i.tagPrefix, DefaultPrefix)
BranchName(i) == ReplaceFirst(i.ref, RefsHeads, <<>>)

\* Lines 241-247: the five outputs.
SetOutputs(i, v, created) ==
  {<<"version", VersionString(v)>>,
   <<"tags", Join(created, <<",">>)>>,
   <<"major-tag", MajorTag(TagPrefix(i), v)>>,
   <<"minor-tag", MinorTag(TagPrefix(i), v)>>,
   <<"patch-tag", PatchTag(TagPrefix(i), v)>>}

\* The manual inputs with minor-version and patch-version read crosswise.
ManualVersion_Swapped(i) ==
  [major |-> OrZero(ParseInt(i.manual[1])),
   minor |-> OrZero(ParseInt(i.manual[3])),
   patch |-> OrZero(ParseInt(i.manual[2]))]

\* Lines 172-175: the version of the manual inputs.
ManualVersion(i) ==
  [major |-> OrZero(ParseInt(i.manual[1])),
   minor |-> OrZero(ParseInt(i.manual[2])),
   patch |-> OrZero(ParseInt(i.manual[3]))]

\* Line 199 without the test of the patch of the branch name.
NeedsNextPatch_Always(i, v) == CreateTags(i) /\ i.token # ""

\* Line 199: the patch of the branch name is replaced by the next patch.
NeedsNextPatch(i, v) == v.patch = 0 /\ CreateTags(i) /\ i.token # ""

\* A credential test that lets the tagging run without a token through.
MissingCredential_Negated(i) == ~CreateTags(i) /\ i.token = ""

\* Line 147: tag creation is requested and there is no token.
MissingCredential(i) == CreateTags(i) /\ i.token = ""

\* The branch test left out: every branch counts as a release branch.
IsReleaseBranch_AnyBranch(i) == TRUE

\* Lines 161-162: the branch name starts with release/.
IsReleaseBranch(i) == StartsWith(BranchName(i), ReleaseSlash)

\* Lines 140-210 up to the first await: how the run goes on.
\*   "failed"   core.setFailed(msg) and return
\*   "skipped"  core.warning and return
\*   "list"     await getNextPatchVersion for the version v
\*   "resolved" the version is v
\* read tells whether getVersionFromPackageJson was called.

\* The package.json mode with the fallback of the auto mode.
ResolveManifest_FallsBack(i) ==
  IF getVersionFromPackageJson(i.manifest) # Null
  THEN [to |-> "resolved", v |-> getVersionFromPackageJson(i.manifest),
        msg |-> "", read |-> TRUE]
  ELSE IF getVersionFromBranchName(BranchName(i)) # Null
  THEN [to |-> "resolved", v |-> getVersionFromBranchName(BranchName(i)),
        msg |-> "", read |-> TRUE]
  ELSE [to |-> "failed", v |-> Null,
        msg |-> "Could not read version from package.json", read |-> TRUE]

\* Lines 177-184: version-source package.json.
ResolveManifest(i) ==
  IF getVersionFromPackageJson(i.manifest) = Null
  THEN [to |-> "failed", v |-> Null,
        msg |-> "Could not read version from package.json", read |-> TRUE]
  ELSE [to |-> "resolved", v |-> getVersionFromPackageJson(i.manifest),
        msg |-> "", read |-> TRUE]

\* The auto mode with the next-patch step moved behind the if/else, where
\* it also applies to the version of package.json.
ResolveAuto_IncrementsManifest(i) ==
  LET v == IF getVersionFromPackageJson(i.manifest) # Null
           THEN getVersionFromPackageJson(i.manifest)
           ELSE getVersionFromBranchName(BranchName(i))
  IN IF v = Null
     THEN [to |-> "failed", v |-> Null,
           msg |-> "Could not determine version from any source",
           read |-> TRUE]
     ELSE IF NeedsNextPatch(i, v)
          THEN [to |-> "list", v |-> v, msg |-> "", read |-> TRUE]
          ELSE [to |-> "resolved", v |-> v, msg |-> "", read |-> TRUE]

\* Lines 185-210: the auto mode, package.json first, then the branch name.
ResolveAuto(i) ==
  IF getVersionFromPackageJson(i.manifest) # Null
  THEN [to |-> "resolved", v |-> getVersionFromPackageJson(i.manifest),
        msg |-> "", read |-> TRUE]
  ELSE IF getVersionFromBranchName(BranchName(i)) # Null
  THEN LET v == getVersionFromBranchName(BranchName(i))
       IN IF NeedsNextPatch(i, v)
          THEN [to |-> "list", v |-> v, msg |-> "", read |-> TRUE]
          ELSE [to |-> "resolved", v |-> v, msg |-> "", read |-> TRUE]
  ELSE [to |-> "failed", v |-> Null,
        msg |-> "Could not determine version from any source", read |-> TRUE]

\* Resolution where manual mode also asks for the next patch.
Resolve_ManualLists(i) ==
  IF MissingCredential(i)
  THEN [to |-> "failed", v |-> Null,
        msg |-> "github-token is required when create-tags is true",
        read |-> FALSE]
  ELSE IF ~IsReleaseBranch(i)
  THEN [to |-> "skipped", v |-> Null,
        msg |-> "Not on a release branch. Skipping versioning.",
        read |-> FALSE]
  ELSE IF i.versionSource = "manual"
  THEN IF NeedsNextPatch(i, ManualVersion(i))
       THEN [to |-> "list", v |-> ManualVersion(i), msg |-> "", read |-> FALSE]
       ELSE [to |-> "resolved", v |-> ManualVersion(i), msg |-> "", read |-> FALSE]
  ELSE IF i.versionSource = "package.json"
  THEN ResolveManifest(i)
  ELSE ResolveAuto(i)

Resolve(i) ==
  IF MissingCredential(i)
  THEN [to |-> "failed", v |-> Null,
        msg |-> "github-token is required when create-tags is true",
        read |-> FALSE]
  ELSE IF ~IsReleaseBranch(i)
  THEN [to |-> "skipped", v |-> Null,
        msg |-> "Not on a release branch. Skipping versioning.",
        read |-> FALSE]
  ELSE IF i.versionSource = "manual"
  THEN [to |-> "resolved", v |-> ManualVersion(i), msg |-> "", read |-> FALSE]
  ELSE IF i.versionSource = "package.json"
  THEN ResolveManifest(i)
  ELSE ResolveAuto(i)

\* Lines 212-253 with the test of createTags at line 220 left out.
WithVersion_AlwaysTags(i, v) ==
  /\ version' = v
  /\ pc' = "getRef"
  /\ k' = 1
  /\ outputs' = {}

\* Lines 212-253 once the version is v: go on to the first tag, or set the
\* outputs when no tag is to be created.
WithVersion(i, v) ==
  /\ version' = v
  /\ IF CreateTags(i)
     THEN /\ pc' = "getRef"
          /\ k' = 1
          /\ outputs' = {}
     ELSE /\ pc' = "done"
          /\ k' = 0
          /\ outputs' = SetOutputs(i, v, <<>>)

\* core.setFailed without the return that follows it, the version having
\* been initialised to 0.0.0: the run goes on to the tags and the outputs.
Failed_NoReturn(i, msg) ==
  /\ failedMsg' = msg
  /\ warnings' = {}
  /\ WithVersion(i, [major |-> 0, minor |-> 0, patch |-> 0])

\* Lines 148-149, 181-182 and 206-207: core.setFailed(msg) and return.
Failed(i, msg) ==
  /\ failedMsg' = msg
  /\ warnings' = {}
  /\ pc' = "done"
  /\ version' = Null
  /\ k' = 0
  /\ outputs' = {}

\* A run starts: lines 140-210 up to the first await.
Start(i) ==
  /\ pc \in {"idle", "done"}
  /\ runs < MaxRuns
  /\ runs' = runs + 1
  /\ sha' = runs + 1
  /\ inp' = i
  /\ tagExists' = FALSE
  /\ createdTags' = <<>>
  /\ errors' = <<>>
  /\ calls' = <<>>
  /\ manifestRead' = Resolve(i).read
  /\ LET r == Resolve(i)
     IN CASE r.to = "failed" -> Failed(i, r.msg)
          [] r.to = "skipped" ->
               /\ failedMsg' = ""
               /\ warnings' = {r.msg}
               /\ pc' = "done"
               /\ version' = Null
               /\ k' = 0
               /\ outputs' = {}
          [] r.to = "list" ->
               /\ failedMsg' = ""
               /\ warnings' = {}
               /\ pc' = "listTags"
               /\ version' = r.v
               /\ k' = 0
               /\ outputs' = {}
          [] r.to = "resolved" ->
               /\ failedMsg' = ""
               /\ warnings' = {}
               /\ WithVersion(i, r.v)
  /\ store0' = store
  /\ UNCHANGED <<workflow, peer, store, failures>>

Call(op, tag, ok) == [op |-> op, tag |-> tag, sha |-> sha, ok |-> ok]

\* Lines 57-80 and 202-203: listTags resolves with a page of tags.
ListTagsOk ==
  /\ pc = "listTags"
  /\ \E page \in Pages(DOMAIN store) :
       WithVersion(inp, [version EXCEPT
         !.patch = getNextPatchVersion(page, inp.tagPrefix, version.major,
                                       version.minor)])
  /\ calls' = Append(calls, Call("listTags", <<>>, TRUE))
  /\ UNCHANGED <<workflow, peer, manifestRead, store, store0, runs, failures, inp, sha, tagExists, createdTags,
                 failedMsg, warnings, errors>>

\* The rejection of listTags not caught in getNextPatchVersion: it reaches
\* the catch of run().
ListTagsFail_Uncaught ==
  /\ pc = "listTags"
  /\ failures < MaxFailures
  /\ failures' = failures + 1
  /\ pc' = "done"
  /\ failedMsg' = "Action failed"
  /\ calls' = Append(calls, Call("listTags", <<>>, FALSE))
  /\ UNCHANGED <<workflow, peer, manifestRead, store, store0, runs, inp, sha, version, k,
                 tagExists, createdTags, outputs, warnings, errors>>

\* Lines 81-84: listTags rejects.
ListTagsFail ==
  /\ pc = "listTags"
  /\ failures < MaxFailures
  /\ failures' = failures + 1
  /\ WithVersion(inp, [version EXCEPT !.patch = 0])
  /\ warnings' = warnings \cup {"Could not fetch existing tags"}
  /\ calls' = Append(calls, Call("listTags", <<>>, FALSE))
  /\ UNCHANGED <<workflow, peer, manifestRead, store, store0, runs, inp, sha, tagExists, createdTags, failedMsg,
                 errors>>

(***************************************************************************)
(* createOrUpdateTag, lines 90-133, for the k-th tag of the run.           *)
(***************************************************************************)
TagName == TagNames(TagPrefix(inp), version)[k]

\* Lines 226-253 with the result of createOrUpdateTag ignored.
TagDone_AlwaysPushed(ok) ==
  LET created == Append(createdTags, TagName)
  IN /\ createdTags' = created
     /\ errors' = IF ok THEN errors ELSE Append(errors, TagName)
     /\ IF k < 3
        THEN /\ pc' = "getRef"
             /\ k' = k + 1
             /\ outputs' = outputs
        ELSE /\ pc' = "done"
             /\ k' = k
             /\ outputs' = SetOutputs(inp, version, created)

\* Lines 226-253 once createOrUpdateTag returned ok for the k-th tag.
TagDone(ok) ==
  LET created == IF ok THEN Append(createdTags, TagName) ELSE createdTags
  IN /\ createdTags' = created
     /\ errors' = IF ok THEN errors ELSE Append(errors, TagName)
     /\ IF k < 3
        THEN /\ pc' = "getRef"
             /\ k' = k + 1
             /\ outputs' = outputs
        ELSE /\ pc' = "done"
             /\ k' = k
             /\ outputs' = SetOutputs(inp, version, created)

\* Lines 95-100: getRef resolves, the tag exists.
GetRefFound ==
  /\ pc = "getRef"
  /\ TagName \in DOMAIN store
  /\ tagExists' = TRUE
  /\ pc' = "updateRef"
  /\ calls' = Append(calls, Call("getRef", TagName, TRUE))
  /\ UNCHANGED <<workflow, peer, manifestRead, store, store0, runs, failures, inp, sha, version, k, createdTags,
                 outputs, failedMsg, warnings, errors>>

\* Lines 101-105: getRef rejects with status 404, the tag does not exist.
GetRefNotFound ==
  /\ pc = "getRef"
  /\ TagName \notin DOMAIN store
  /\ tagExists' = FALSE
  /\ pc' = "createRef"
  /\ calls' = Append(calls, Call("getRef", TagName, TRUE))
  /\ UNCHANGED <<workflow, peer, manifestRead, store, store0, runs, failures, inp, sha, version, k, createdTags,
                 outputs, failedMsg, warnings, errors>>

\* The catch of getRef without the test of the status: every rejection
\* counts as "the tag does not exist".
GetRefError_AsNotFound ==
  /\ pc = "getRef"
  /\ failures < MaxFailures
  /\ failures' = failures + 1
  /\ tagExists' = FALSE
  /\ pc' = "createRef"
  /\ calls' = Append(calls, Call("getRef", TagName, FALSE))
  /\ UNCHANGED <<workflow, peer, manifestRead, store, store0, runs, inp, sha, version, k,
                 createdTags, outputs, failedMsg, warnings, errors>>

\* Lines 102-103 and 129-131: getRef rejects with another status.
GetRefError ==
  /\ pc = "getRef"
  /\ failures < MaxFailures
  /\ failures' = failures + 1
  /\ tagExists' = FALSE
  /\ calls' = Append(calls, Call("getRef", TagName, FALSE))
  /\ TagDone(FALSE)
  /\ UNCHANGED <<workflow, peer, manifestRead, store, store0, runs, inp, sha, version, failedMsg, warnings>>

\* An update that leaves the ref on its commit.
updateRef_KeepsCommit(st, tag, commit) == st

\* The effect of a forced update of the ref of tag on the repository.
updateRef(st, tag, commit) == [st EXCEPT ![tag] = commit]

\* Lines 107-116 and 128: the existing tag is moved to the commit of the run.
UpdateRefOk ==
  /\ pc = "updateRef"
  /\ TagName \in DOMAIN store
  /\ store' = updateRef(store, TagName, sha)
  /\ calls' = Append(calls, Call("updateRef", TagName, TRUE))
  /\ TagDone(TRUE)
  /\ UNCHANGED <<workflow, peer, manifestRead, store0, runs, failures, inp, sha, version, tagExists, failedMsg,
                 warnings>>

\* A rejected updateRef tried again: the run stays at the call.
UpdateRefFail_Retries ==
  /\ pc = "updateRef"
  /\ failures < MaxFailures
  /\ failures' = failures + 1
  /\ calls' = Append(calls, Call("updateRef", TagName, FALSE))
  /\ UNCHANGED <<workflow, peer, manifestRead, store, store0, runs, inp, sha, version,
                 tagExists, failedMsg, warnings, pc, k, createdTags, outputs, errors>>

\* Lines 110-116 and 129-131: updateRef rejects.
UpdateRefFail ==
  /\ pc = "updateRef"
  /\ failures < MaxFailures
  /\ failures' = failures + 1
  /\ calls' = Append(calls, Call("updateRef", TagName, FALSE))
  /\ TagDone(FALSE)
  /\ UNCHANGED <<workflow, peer, manifestRead, store, store0, runs, inp, sha, version, tagExists, failedMsg,
                 warnings>>

\* createRef with the commit the tags had before the first run.
createRef_StaleCommit(st, tag, commit) ==
  [t \in DOMAIN st \cup {tag} |-> IF t = tag THEN 0 ELSE st[t]]

\* The effect of the creation of the ref of tag on the repository.
createRef(st, tag, commit) ==
  [t \in DOMAIN st \cup {tag} |-> IF t = tag THEN commit ELSE st[t]]

\* Lines 117-126 and 128: the tag is created on the commit of the run.
CreateRefOk ==
  /\ pc = "createRef"
  /\ TagName \notin DOMAIN store
  /\ store' = createRef(store, TagName, sha)
  /\ calls' = Append(calls, Call("createRef", TagName, TRUE))
  /\ TagDone(TRUE)
  /\ UNCHANGED <<workflow, peer, manifestRead, store0, runs, failures, inp, sha, version, tagExists, failedMsg,
                 warnings>>

\* A rejected createRef that also marks the run as failed.
CreateRefFail_SetsFailed ==
  /\ pc = "createRef"
  /\ failures < MaxFailures
  /\ failures' = failures + 1
  /\ calls' = Append(calls, Call("createRef", TagName, FALSE))
  /\ TagDone(FALSE)
  /\ failedMsg' = "Action failed"
  /\ UNCHANGED <<workflow, peer, manifestRead, store, store0, runs, inp, sha, version,
                 tagExists, warnings>>

\* Lines 120-125 and 129-131: createRef rejects.
CreateRefFail ==
  /\ pc = "createRef"
  /\ failures < MaxFailures
  /\ failures' = failures + 1
  /\ calls' = Append(calls, Call("createRef", TagName, FALSE))
  /\ TagDone(FALSE)
  /\ UNCHANGED <<workflow, peer, manifestRead, store, store0, runs, inp, sha, version, tagExists, failedMsg,
                 warnings>>

Next ==
  \/ \E i \in RunInputs(workflow) : Start(i)
  \/ ListTagsOk
  \/ ListTagsFail
  \/ GetRefFound
  \/ GetRefNotFound
  \/ GetRefError
  \/ UpdateRefOk
  \/ UpdateRefFail
  \/ CreateRefOk
  \/ CreateRefFail

Spec == Init /\ [][Next]_vars

\* The steps of a run that has started: every awaited call is answered.
RunStep ==
  \/ ListTagsOk
  \/ ListTagsFail
  \/ GetRefFound
  \/ GetRefNotFound
  \/ GetRefError
  \/ UpdateRefOk
  \/ UpdateRefFail
  \/ CreateRefOk
  \/ CreateRefFail

\* Workflows of each version source on release/v1, and auto mode on a
\* branch that is no release branch and on a release branch without a
\* version, on a repository that has the tags v1, v1.0 and v1.0.0.
OutcomeWorkflows ==
  {w \in RelevantWorkflows :
     /\ w.tagPrefix = <<>>
     /\ w.ref \in {RefMain, RefV1, RefNoVersion}
     /\ w.ref # RefV1 => w.versionSource = ""
     /\ w.manual \in {<<<<>>, <<>>, <<>>>>, <<<<"1">>, <<"0">>, <<"x">>>>}}

InitFair ==
  \E w \in OutcomeWorkflows : InitWith(w, [t \in {V1, V1x0, V1x0x0} |-> 0])

SpecFair == InitFair /\ [][Next]_vars /\ WF_vars(RunStep)

(***************************************************************************)
(* Repositories with many tags.  getNextPatchVersion sees the tags of one  *)
(* page; the tags below are there to be told apart by its pattern, or to   *)
(* fill the page.                                                          *)
(***************************************************************************)
TagOf(prefix, M, N, P) ==
  prefix \o ToStr(M) \o Dot \o ToStr(N) \o Dot \o ToStr(P)

\* The fallback of the auto mode on the branch of ref with the prefix tp.
FallbackWorkflow(ref, tp) ==
  [ref |-> ref, versionSource |-> "", tagPrefix |-> tp,
   manual |-> <<<<>>, <<>>, <<>>>>]

RepoWorkflows ==
  {FallbackWorkflow(r, tp) : r \in {RefV1, RefV1x2}, tp \in TagPrefixes}

\* Tags that are not of the form prefix + 1.0.<digits> or prefix + 1.2.<digits>
\* for the prefix v or r. : another minor, another major, text before the
\* prefix or after the patch, no prefix, and the prefix r. with another
\* character for its dot.
OtherTags ==
  {TagOf(<<"v">>, 1, 1, 0), TagOf(<<"v">>, 1, 1, 1),
   TagOf(<<"r", ".">>, 1, 1, 9),
   TagOf(<<"v">>, 2, 2, 8), TagOf(<<"v">>, 2, 0, 8),
   TagOf(<<"v">>, 11, 2, 9), TagOf(<<"v">>, 1, 20, 5),
   TagOf(<<"x", "v">>, 1, 2, 3), TagOf(<<"x", "v">>, 1, 0, 3),
   TagOf(<<"v">>, 1, 2, 3) \o <<"-", "r", "c">>,
   TagOf(<<"v">>, 1, 0, 3) \o <<"-", "r", "c">>,
   TagOf(<<"v">>, 1, 2, 3) \o <<".", "4">>,
   TagOf(<<"r", ".">>, 1, 0, 3) \o <<".", "4">>,
   TagOf(<<>>, 1, 2, 6), TagOf(<<>>, 1, 0, 6),
   TagOf(<<"r", "x">>, 1, 2, 7), TagOf(<<"r", "x">>, 1, 0, 7)}

\* One tag of the form for each of the four workflows.
PatchTags ==
  {TagOf(<<"v">>, 1, 2, 1), TagOf(<<"r", ".">>, 1, 2, 5),
   TagOf(<<"v">>, 1, 0, 4), TagOf(<<"r", ".">>, 1, 0, 2)}

RepoStores ==
  {[t \in OtherTags |-> 0], [t \in OtherTags \cup PatchTags |-> 0]}

InitRepo == \E w \in RepoWorkflows, st \in RepoStores : InitWith(w, st)

SpecRepo == InitRepo /\ [][Next]_vars

\* A repository whose tags fill the page of listTags exactly: the tags of
\* the versions package.json can name, v1, v1.0 and the patches of 1.0.
FullPageTags ==
  {V1, V1x0, <<"v", "1", ".", "1">>, TagOf(<<"v">>, 1, 1, 0),
   <<"v", "2">>, <<"v", "2", ".", "1">>, TagOf(<<"v">>, 2, 1, 3)}
  \cup {TagOf(<<"v">>, 1, 0, P) : P \in 0..(PerPage - 8)}

InitPaging == InitWith(FallbackWorkflow(RefV1, <<>>), [t \in FullPageTags |-> 0])

SpecPaging == InitPaging /\ [][Next]_vars

(***************************************************************************)
(* Two runs of the workflow at the same time.  The variables pc, inp, sha, *)
(* version, ... are the local state of the run that takes the steps; peer  *)
(* is the local state of the other run, which is suspended at an await.    *)
(* The repository is shared.                                               *)
(***************************************************************************)
\* The other run is resumed.
Switch ==
  /\ peer' = [store0 |-> store0, pc |-> pc, inp |-> inp, sha |-> sha,
              version |-> version, k |-> k, tagExists |-> tagExists,
              createdTags |-> createdTags, outputs |-> outputs,
              failedMsg |-> failedMsg, warnings |-> warnings,
              manifestRead |-> manifestRead, errors |-> errors,
              calls |-> calls]
  /\ store0' = peer.store0
  /\ pc' = peer.pc
  /\ inp' = peer.inp
  /\ sha' = peer.sha
  /\ version' = peer.version
  /\ k' = peer.k
  /\ tagExists' = peer.tagExists
  /\ createdTags' = peer.createdTags
  /\ outputs' = peer.outputs
  /\ failedMsg' = peer.failedMsg
  /\ warnings' = peer.warnings
  /\ manifestRead' = peer.manifestRead
  /\ errors' = peer.errors
  /\ calls' = peer.calls
  /\ UNCHANGED <<workflow, store, runs, failures>>

\* Lines 120-125 and 129-131: createRef rejects because the other run has
\* created the ref since getRef answered 404.
CreateRefExists ==
  /\ pc = "createRef"
  /\ TagName \in DOMAIN store
  /\ calls' = Append(calls, Call("createRef", TagName, FALSE))
  /\ TagDone(FALSE)
  /\ UNCHANGED <<workflow, peer, manifestRead, store, store0, runs, failures, inp, sha,
                 version, tagExists, failedMsg, warnings>>

\* The runs that create tags from the branch name alone.
ConcInputs(w) ==
  {i \in RunInputs(w) : CreateTags(i) /\ i.token # "" /\ i.manifest = NoFile}

InitConc == \E st \in InitStores : InitWith(FallbackWorkflow(RefV1, <<>>), st)

NextConc ==
  \/ \E i \in ConcInputs(workflow) : Start(i)
  \/ ListTagsOk
  \/ ListTagsFail
  \/ GetRefFound
  \/ GetRefNotFound
  \/ GetRefError
  \/ UpdateRefOk
  \/ UpdateRefFail
  \/ CreateRefOk
  \/ CreateRefFail
  \/ CreateRefExists
  \/ Switch

SpecConc == InitConc /\ [][NextConc]_vars

(***************************************************************************)
(* Vocabulary of the properties.                                           *)
(***************************************************************************)
\* The version components and patch numbers the properties range over.
Components == {0, 1, 2, 3, 10}
Patches == 0..12

\* "M.N.P", and the refs of the branches release/vM, release/vM.N and
\* release/vM.N.P, written out.
Canon(M, N, P) == ToStr(M) \o Dot \o ToStr(N) \o Dot \o ToStr(P)
RefOf1(M) == RefsHeads \o ReleaseSlash \o <<"v">> \o ToStr(M)
RefOf2(M, N) == RefOf1(M) \o Dot \o ToStr(N)
RefOf3(M, N, P) == RefOf2(M, N) \o Dot \o ToStr(P)

Done == pc = "done"
ManualMode == inp.versionSource = "manual"
ManifestMode == inp.versionSource = "package.json"
AutoMode == ~ManualMode /\ ~ManifestMode
CredentialOk == ~(CreateTags(inp) /\ inp.token = "")
OnReleaseBranch == StartsWith(BranchName(inp), ReleaseSlash)
ManifestSupplies == inp.manifest.kind = "json" /\ inp.manifest.version # <<>>
\* The branch-only fallback of auto mode.
Fallback == AutoMode /\ ~ManifestSupplies /\ CredentialOk /\ OnReleaseBranch

Mutations == {j \in 1..Len(calls) : calls[j].op \in {"createRef", "updateRef"}}
OpsOn(tag) == {calls[j].op : j \in {m \in Mutations : calls[m].tag = tag}}
NoCallFailed == \A j \in 1..Len(calls) : calls[j].ok
Listed == \E j \in 1..Len(calls) : calls[j].op = "listTags"
ListFailed == \E j \in 1..Len(calls) : calls[j].op = "listTags" /\ ~calls[j].ok

\* The name is the prefix followed by three runs of digits separated by dots.
IsPatchTagName(t, prefix) ==
  /\ StartsWith(t, prefix)
  /\ LET parts == Split(SubSeq(t, Len(prefix) + 1, Len(t)), ".")
     IN /\ Len(parts) = 3
        /\ \A j \in 1..3 : parts[j] # <<>> /\ DigitRun(parts[j], 1) = Len(parts[j])

(***************************************************************************)
(* C1.  When tag creation is enabled and the patch tag of the resolved     *)
(* version exists in the repository when the run starts, the run fails     *)
(* as a whole and makes no createRef and no updateRef call.                *)
(* The code has no such check: the patch tag is moved like the others.     *)
(***************************************************************************)
C1_PatchConflictFailsRun ==
  (/\ pc \in {"getRef", "updateRef", "createRef", "done"}
   /\ CreateTags(inp)
   /\ version # Null
   /\ PatchTag(TagPrefix(inp), version) \in DOMAIN store0)
  => (Mutations = {} /\ (Done => failedMsg # ""))

(***************************************************************************)
(* C2.  A patch tag that exists in the repository is never moved: in       *)
(* every step it stays on the commit it is on.                             *)
(* The code moves it with a forced updateRef when a run resolves its       *)
(* version again.                                                          *)
(***************************************************************************)
C2_PatchTagNeverMoved ==
  [][\A t \in DOMAIN store :
       IsPatchTagName(t, OrDefault(workflow.tagPrefix, DefaultPrefix))
         => (t \in DOMAIN store' /\ store'[t] = store[t])]_vars

(***************************************************************************)
(* C3.  In manifest mode, and in auto mode when the manifest supplies a    *)
(* version a.b.c: on the branch release/vM.N with a # M or b # N, or on    *)
(* the branch release/vM with a # M, the run fails and sets no output.     *)
(* The code never compares the manifest with the branch.                   *)
(***************************************************************************)
C3_MismatchFailsRun ==
  (Done /\ ~ManualMode /\ ManifestSupplies)
  => \A M \in Components, a \in Components, b \in Components, c \in Components :
       (/\ inp.manifest.version = Canon(a, b, c)
        /\ \/ inp.ref = RefOf1(M) /\ a # M
           \/ \E N \in Components :
                inp.ref = RefOf2(M, N) /\ (a # M \/ b # N))
       => (failedMsg # "" /\ outputs = {})

(***************************************************************************)
(* C4.  On a branch release/vM that names no minor and no patch, with a    *)
(* manifest version M.m.p of the same major, a run in manifest mode or in  *)
(* auto mode that gets to the resolution does not fail and outputs         *)
(* exactly the version M.m.p: the minor is not compared.                   *)
(***************************************************************************)
C4_MajorOnlyBranchAcceptsAnyMinor ==
  (Done /\ ~ManualMode /\ ManifestSupplies /\ CredentialOk)
  => \A M \in Components, m \in Components, p \in Components :
       (inp.ref = RefOf1(M) /\ inp.manifest.version = Canon(M, m, p))
       => (/\ failedMsg = ""
           /\ version = [major |-> M, minor |-> m, patch |-> p]
           /\ <<"version", Canon(M, m, p)>> \in outputs)

\* release/v1 with the manifest version 1.1.0 in manifest mode: 1.1.0.
C4_Witness ==
  /\ Done
  /\ ManifestMode
  /\ inp.ref = RefV1
  /\ inp.manifest = Manifest(<<"1", ".", "1", ".", "0">>)
  /\ <<"version", <<"1", ".", "1", ".", "0">>>> \in outputs

(***************************************************************************)
(* C5.  Manual mode.  As stated: for all manual inputs (a, b, c) a run in  *)
(* manual mode outputs the version a.b.c and the three tags derived from   *)
(* it, regardless of the branch name.                                      *)
(***************************************************************************)
ManualOutputs(a, b, c) ==
  {<<"version", Canon(a, b, c)>>,
   <<"major-tag", TagPrefix(inp) \o ToStr(a)>>,
   <<"minor-tag", TagPrefix(inp) \o ToStr(a) \o Dot \o ToStr(b)>>,
   <<"patch-tag", TagPrefix(inp) \o Canon(a, b, c)>>}

C5_ManualRegardlessOfBranch ==
  (Done /\ ManualMode)
  => \A a \in Components, b \in Components, c \in Components :
       inp.manual = <<ToStr(a), ToStr(b), ToStr(c)>>
       => ManualOutputs(a, b, c) \subseteq outputs

\* C5 as amended: ... a run in manual mode that passes the credential check
\* on a branch whose name starts with release/ outputs the version a.b.c
\* and the three tags derived from it, whatever follows release/ in the
\* branch name and without failing.
C5_ManualOnReleaseBranch ==
  (Done /\ ManualMode /\ CredentialOk /\ OnReleaseBranch)
  => \A a \in Components, b \in Components, c \in Components :
       inp.manual = <<ToStr(a), ToStr(b), ToStr(c)>>
       => (failedMsg = "" /\ ManualOutputs(a, b, c) \subseteq outputs)

\* Manual 0.10.2 on release/v1.2.3: the branch is not consulted.
C5_Witness ==
  /\ Done
  /\ ManualMode
  /\ inp.ref = RefV1x2x3
  /\ inp.manual = <<<<"0">>, <<"1", "0">>, <<"2">>>>
  /\ <<"version", <<"0", ".", "1", "0", ".", "2">>>> \in outputs
  /\ <<"patch-tag", <<"v", "0", ".", "1", "0", ".", "2">>>> \in outputs

(***************************************************************************)
(* C6.  In the branch-only fallback of auto mode on a branch that names    *)
(* no patch, the resolved patch is 1 + the greatest P such that the tag    *)
(* prefix + major.minor.P exists, and 0 when there is none.  Stated for    *)
(* the runs whose listing did not fail.                                    *)
(* The code lists the tags only when create-tags is true: a run with       *)
(* create-tags false resolves the patch 0 whatever tags exist.             *)
(***************************************************************************)
ExistingPatches(st, prefix, M, N) ==
  {P \in Patches : prefix \o Canon(M, N, P) \in DOMAIN st}

NextUnusedPatch(st, prefix, M, N) ==
  LET ps == ExistingPatches(st, prefix, M, N)
  IN IF ps = {} THEN 0
     ELSE 1 + (CHOOSE m \in ps : \A n \in ps : n <= m)

C6_FallbackPatchIsNextUnused ==
  (Done /\ Fallback /\ version # Null /\ ~ListFailed)
  => \A M \in Components, N \in Components :
       ((inp.ref = RefOf1(M) /\ N = 0) \/ inp.ref = RefOf2(M, N))
       => version = [major |-> M, minor |-> N,
                     patch |-> NextUnusedPatch(store0, TagPrefix(inp), M, N)]

(***************************************************************************)
(* C7.  Branch-only fallback on a branch release/vM.N.P that names all     *)
(* three components.  As stated: for every P, P = 0 included, the          *)
(* resolved version is M.N.P and the tags are not listed.                  *)
(***************************************************************************)
FullBranchLiteral(M, N, P) ==
  /\ pc # "listTags"
  /\ ~Listed
  /\ version = [major |-> M, minor |-> N, patch |-> P]
  /\ Done => <<"version", Canon(M, N, P)>> \in outputs

C7_FullBranchTakenLiterally ==
  (pc # "idle" /\ Fallback)
  => \A M \in Components, N \in Components, P \in Components :
       inp.ref = RefOf3(M, N, P) => FullBranchLiteral(M, N, P)

\* C7 as amended: ... when the branch name contains all three components
\* and the patch P is not 0, the resolved version is exactly M.N.P: the
\* patch is not incremented and the tags are not listed.
C7_FullBranchNonZeroPatchLiteral ==
  (pc # "idle" /\ Fallback)
  => \A M \in Components, N \in Components, P \in Components \ {0} :
       inp.ref = RefOf3(M, N, P) => FullBranchLiteral(M, N, P)

\* release/v1.2.3 with tag creation: 1.2.3, nothing listed.
C7_Witness ==
  /\ Done
  /\ Fallback
  /\ CreateTags(inp)
  /\ inp.ref = RefV1x2x3
  /\ <<"version", <<"1", ".", "2", ".", "3">>>> \in outputs
  /\ ~Listed

(***************************************************************************)
(* C8.  First release: on the branch release/vM with no manifest version   *)
(* and no tag in the repository, a run that creates tags and whose remote  *)
(* calls all succeed resolves M.0.0 and ends with exactly the three tags   *)
(* prefix+M, prefix+M.0 and prefix+M.0.0 created, all on the commit of     *)
(* the run.                                                                *)
(***************************************************************************)
C8_FirstRelease ==
  (Done /\ Fallback /\ CreateTags(inp) /\ DOMAIN store0 = {} /\ NoCallFailed)
  => \A M \in Components :
       inp.ref = RefOf1(M)
       => LET three == {TagPrefix(inp) \o ToStr(M),
                        TagPrefix(inp) \o ToStr(M) \o Dot \o ToStr(0),
                        TagPrefix(inp) \o Canon(M, 0, 0)}
          IN /\ <<"version", Canon(M, 0, 0)>> \in outputs
             /\ failedMsg = ""
             /\ DOMAIN store = three
             /\ \A t \in three : store[t] = sha /\ OpsOn(t) = {"createRef"}

\* release/v1 on an empty repository: v1, v1.0 and v1.0.0 on the commit.
C8_Witness ==
  /\ Done
  /\ Fallback
  /\ inp.ref = RefV1
  /\ inp.tagPrefix = <<>>
  /\ DOMAIN store0 = {}
  /\ NoCallFailed
  /\ DOMAIN store = {V1, V1x0, V1x0x0}
  /\ store[V1x0x0] = sha

(***************************************************************************)
(* C9.  Subsequent release: when the major and the minor tag exist and     *)
(* the patch tag of the resolved version does not, a run that creates      *)
(* tags and whose remote calls all succeed moves the major and the minor   *)
(* tag to its commit with updateRef, without creating them again, and      *)
(* creates the patch tag on its commit.                                    *)
(***************************************************************************)
C9_SubsequentRelease ==
  (/\ Done
   /\ CreateTags(inp)
   /\ version # Null
   /\ NoCallFailed
   /\ MajorTag(TagPrefix(inp), version) \in DOMAIN store0
   /\ MinorTag(TagPrefix(inp), version) \in DOMAIN store0
   /\ PatchTag(TagPrefix(inp), version) \notin DOMAIN store0)
  => /\ OpsOn(MajorTag(TagPrefix(inp), version)) = {"updateRef"}
     /\ OpsOn(MinorTag(TagPrefix(inp), version)) = {"updateRef"}
     /\ OpsOn(PatchTag(TagPrefix(inp), version)) = {"createRef"}
     /\ store[MajorTag(TagPrefix(inp), version)] = sha
     /\ store[MinorTag(TagPrefix(inp), version)] = sha
     /\ store[PatchTag(TagPrefix(inp), version)] = sha
     /\ \A t \in DOMAIN store0 :
          t \notin {MajorTag(TagPrefix(inp), version),
                    MinorTag(TagPrefix(inp), version)} => store[t] = store0[t]

\* v1, v1.0 and v1.0.0 exist on release/v1: v1 and v1.0 are moved and
\* v1.0.1 is created.
C9_Witness ==
  /\ Done
  /\ Fallback
  /\ inp.ref = RefV1
  /\ DOMAIN store0 = {V1, V1x0, V1x0x0}
  /\ NoCallFailed
  /\ OpsOn(V1) = {"updateRef"}
  /\ OpsOn(V1x0) = {"updateRef"}
  /\ OpsOn(<<"v", "1", ".", "0", ".", "1">>) = {"createRef"}
  /\ store[V1] = sha
  /\ store[V1] # store0[V1]

(***************************************************************************)
(* C10.  Partial success: when the createRef or updateRef call for the     *)
(* major tag fails, the run is not marked failed and goes on to the minor  *)
(* and the patch tag; when their calls succeed, the run outputs the        *)
(* resolved version and reports exactly the minor and the patch tag as     *)
(* created or updated.                                                     *)
(***************************************************************************)
MutationFailedOn(tag) ==
  \E j \in Mutations : calls[j].tag = tag /\ ~calls[j].ok
MutationOkOn(tag) ==
  \E j \in Mutations : calls[j].tag = tag /\ calls[j].ok
Queried(tag) ==
  \E j \in 1..Len(calls) : calls[j].op = "getRef" /\ calls[j].tag = tag

C10_MajorFailureIsPartialSuccess ==
  (/\ pc \in {"getRef", "updateRef", "createRef", "done"}
   /\ MutationFailedOn(MajorTag(TagPrefix(inp), version)))
  => /\ failedMsg = ""
     /\ pc = "getRef" => (k = 2 \/ Queried(MinorTag(TagPrefix(inp), version)))
     /\ Done =>
          /\ Queried(MinorTag(TagPrefix(inp), version))
          /\ Queried(PatchTag(TagPrefix(inp), version))
          /\ <<"version", VersionString(version)>> \in outputs
     /\ (/\ Done
         /\ MutationOkOn(MinorTag(TagPrefix(inp), version))
         /\ MutationOkOn(PatchTag(TagPrefix(inp), version)))
        => <<"tags", MinorTag(TagPrefix(inp), version) \o <<",">>
                     \o PatchTag(TagPrefix(inp), version)>> \in outputs

\* The creation of v1 fails on release/v1: the run reports v1.0,v1.0.0.
C10_Witness ==
  /\ Done
  /\ inp.ref = RefV1
  /\ MutationFailedOn(V1)
  /\ failedMsg = ""
  /\ <<"tags", <<"v", "1", ".", "0", ",", "v", "1", ".", "0", ".", "0">>>> \in outputs
  /\ <<"version", <<"1", ".", "0", ".", "0">>>> \in outputs

(***************************************************************************)
(* Vocabulary of the properties of the stages of a run.                    *)
(***************************************************************************)
MissingCredentialMsg == "github-token is required when create-tags is true"
ManifestUnreadableMsg == "Could not read version from package.json"
NoVersionSourceMsg == "Could not determine version from any source"
SkipMsg == "Not on a release branch. Skipping versioning."
ListWarning == "Could not fetch existing tags"

Tagging == pc \in {"getRef", "updateRef", "createRef"}

\* The effective prefix and the three tag names of the version M.N.P,
\* written out.
EffectivePrefix == IF inp.tagPrefix = <<>> THEN <<"v">> ELSE inp.tagPrefix
NameOfMajor(M) == EffectivePrefix \o ToStr(M)
NameOfMinor(M, N) == EffectivePrefix \o ToStr(M) \o <<".">> \o ToStr(N)
NameOfPatch(M, N, P) ==
  EffectivePrefix \o ToStr(M) \o <<".">> \o ToStr(N) \o <<".">> \o ToStr(P)
ExpectedNames ==
  <<NameOfMajor(version.major),
    NameOfMinor(version.major, version.minor),
    NameOfPatch(version.major, version.minor, version.patch)>>

\* The version and tag-name outputs of the version of the run.
VersionOutputs ==
  {<<"version", Canon(version.major, version.minor, version.patch)>>,
   <<"major-tag", ExpectedNames[1]>>,
   <<"minor-tag", ExpectedNames[2]>>,
   <<"patch-tag", ExpectedNames[3]>>}

GetRefFailedOn(tag) ==
  \E j \in 1..Len(calls) :
    calls[j].op = "getRef" /\ calls[j].tag = tag /\ ~calls[j].ok
InSeq(x, sq) == \E j \in 1..Len(sq) : sq[j] = x

(***************************************************************************)
(* C11.  With create-tags false, a run on a release branch makes no        *)
(* createRef and no updateRef call and leaves the tags of the repository   *)
(* as they were; when it resolves a version it is not marked failed and    *)
(* outputs that version, the three tag names derived from it, and an       *)
(* empty list of created tags.                                             *)
(***************************************************************************)
C11_VersionOnlyRun ==
  (pc # "idle" /\ inp.createTags = "false" /\ OnReleaseBranch)
  => /\ Done
     /\ Mutations = {}
     /\ store = store0
     /\ version # Null
        => /\ failedMsg = ""
           /\ VersionOutputs \subseteq outputs
           /\ <<"tags", <<>>>> \in outputs

\* release/v1.2 without package.json and with create-tags false, on a
\* repository that has tags: 1.2.0 and v1, v1.2, v1.2.0 are reported.
C11_Witness ==
  /\ Done
  /\ inp.createTags = "false"
  /\ inp.ref = RefV1x2
  /\ AutoMode
  /\ DOMAIN store0 # {}
  /\ store = store0
  /\ calls = <<>>
  /\ <<"version", <<"1", ".", "2", ".", "0">>>> \in outputs
  /\ <<"major-tag", <<"v", "1">>>> \in outputs
  /\ <<"minor-tag", <<"v", "1", ".", "2">>>> \in outputs
  /\ <<"patch-tag", <<"v", "1", ".", "2", ".", "0">>>> \in outputs

(***************************************************************************)
(* C12.  When tag creation is requested (create-tags is not "false") and   *)
(* the token is empty, the run fails with the missing-credential message   *)
(* at once, on every branch and for every version source: package.json is  *)
(* not read, no remote call is made, no tag is created or moved and no     *)
(* output is set.                                                          *)
(***************************************************************************)
C12_MissingCredentialFailsFirst ==
  (pc # "idle" /\ inp.createTags # "false" /\ inp.token = "")
  => /\ Done
     /\ failedMsg = MissingCredentialMsg
     /\ ~manifestRead
     /\ version = Null
     /\ calls = <<>>
     /\ store = store0
     /\ outputs = {}
     /\ warnings = {}

\* No token on main in package.json mode with a readable package.json: the
\* run fails before the branch test and before the manifest is read.
C12_Witness ==
  /\ Done
  /\ inp.createTags = "true"
  /\ inp.token = ""
  /\ inp.ref = RefMain
  /\ ManifestMode
  /\ ManifestSupplies
  /\ failedMsg = MissingCredentialMsg
  /\ outputs = {}

(***************************************************************************)
(* C13.  In package.json mode, a run that gets to the resolution (the      *)
(* credential and the release-branch test passed) and whose package.json   *)
(* supplies no version (no file, a read or parse error, no version field)  *)
(* fails with the one message "Could not read version from package.json":  *)
(* the branch name is not consulted, no version is resolved, no output is  *)
(* set and no remote call is made.                                         *)
(***************************************************************************)
C13_ManifestModeNoFallback ==
  (pc # "idle" /\ ManifestMode /\ CredentialOk /\ OnReleaseBranch
   /\ ~ManifestSupplies)
  => /\ Done
     /\ failedMsg = ManifestUnreadableMsg
     /\ manifestRead
     /\ version = Null
     /\ outputs = {}
     /\ calls = <<>>
     /\ store = store0

\* release/v1.2.3 names a full version, package.json cannot be read: the
\* run fails and 1.2.3 is not used.
C13_Witness ==
  /\ Done
  /\ ManifestMode
  /\ inp.ref = RefV1x2x3
  /\ inp.manifest = ReadThrows
  /\ inp.token # ""
  /\ failedMsg = ManifestUnreadableMsg
  /\ outputs = {}

(***************************************************************************)
(* C14.  In auto mode, a run that gets to the resolution fails with        *)
(* "Could not determine version from any source" if and only if            *)
(* package.json supplies no version and the branch name has no digit after *)
(* release/ or release/v; in every other case it is not marked failed and  *)
(* resolves a version.                                                     *)
(***************************************************************************)
\* The name of the release branch goes on, after an optional v, with a
\* digit.
HasMajorHint ==
  LET b == BranchName(inp)
      j == IF Len(b) >= 9 /\ b[9] = "v" THEN 10 ELSE 9
  IN Len(b) >= j /\ b[j] \in {"0", "1", "2", "3", "4", "5", "6", "7", "8", "9"}

C14_NoVersionSourceIff ==
  (pc # "idle" /\ AutoMode /\ CredentialOk /\ OnReleaseBranch)
  => /\ failedMsg = NoVersionSourceMsg <=> (~ManifestSupplies /\ ~HasMajorHint)
     /\ failedMsg # NoVersionSourceMsg => (failedMsg = "" /\ version # Null)
     /\ failedMsg = NoVersionSourceMsg
        => (Done /\ version = Null /\ outputs = {} /\ calls = <<>>)

\* release/x without package.json: no source yields a version.
C14_Witness ==
  /\ Done
  /\ AutoMode
  /\ CredentialOk
  /\ inp.ref = RefNoVersion
  /\ inp.manifest = NoFile
  /\ failedMsg = NoVersionSourceMsg

(***************************************************************************)
(* C15.  On a branch whose name, after refs/heads/ is removed, does not    *)
(* start with release/, a run that passed the credential test only warns   *)
(* and returns, for every version source: no output is set, the run is     *)
(* not marked failed, package.json is not read and no remote call is made. *)
(***************************************************************************)
C15_NonReleaseBranchSkips ==
  (pc # "idle" /\ CredentialOk /\ ~OnReleaseBranch)
  => /\ Done
     /\ warnings = {SkipMsg}
     /\ failedMsg = ""
     /\ outputs = {}
     /\ calls = <<>>
     /\ store = store0
     /\ version = Null
     /\ ~manifestRead

\* A manual version on main with a token: skipped, nothing is output.
C15_Witness ==
  /\ Done
  /\ inp.ref = RefMain
  /\ ManualMode
  /\ inp.manual = <<<<"3">>, <<"2">>, <<"1">>>>
  /\ inp.token # ""
  /\ warnings = {SkipMsg}
  /\ outputs = {}
  /\ failedMsg = ""

(***************************************************************************)
(* C16.  The three tag names are determined by the resolved version M.N.P  *)
(* and the prefix alone: prefix+M, prefix+M.N and prefix+M.N.P.  In every  *)
(* state of a run, whatever tags the repository holds and however the      *)
(* remote calls went, the existence queries are made for these names in    *)
(* this order, every createRef and updateRef call is for one of them, and  *)
(* the outputs major-tag, minor-tag and patch-tag carry them.              *)
(***************************************************************************)
IsGetRef(c) == c.op = "getRef"
GetRefCalls == SelectSeq(calls, IsGetRef)

C16_TagNamesFromVersionAndPrefix ==
  (version # Null /\ (Tagging \/ Done))
  => /\ \A j \in 1..Len(GetRefCalls) : GetRefCalls[j].tag = ExpectedNames[j]
     /\ \A j \in Mutations : InSeq(calls[j].tag, ExpectedNames)
     /\ Done => {<<"major-tag", ExpectedNames[1]>>,
                 <<"minor-tag", ExpectedNames[2]>>,
                 <<"patch-tag", ExpectedNames[3]>>} \subseteq outputs

\* The prefix "r." and the version 1.0.0 on a repository with the tags v1,
\* v1.0, v1.0.0, the creation of one tag having failed: r.1, r.1.0, r.1.0.0.
C16_Witness ==
  /\ Done
  /\ inp.tagPrefix = <<"r", ".">>
  /\ DOMAIN store0 # {}
  /\ ~NoCallFailed
  /\ Len(GetRefCalls) = 3
  /\ <<"major-tag", <<"r", ".", "1">>>> \in outputs
  /\ <<"minor-tag", <<"r", ".", "1", ".", "0">>>> \in outputs
  /\ <<"patch-tag", <<"r", ".", "1", ".", "0", ".", "0">>>> \in outputs

(***************************************************************************)
(* C17.  When listTags fails during the auto-increment, the run logs the   *)
(* warning "Could not fetch existing tags", resolves the patch 0, is not   *)
(* marked failed and goes on: it queries the three tags and outputs the    *)
(* version with patch 0 and its tag names.                                 *)
(***************************************************************************)
C17_ListFailureIsTolerated ==
  ListFailed
  => /\ ListWarning \in warnings
     /\ failedMsg = ""
     /\ version # Null
     /\ version.patch = 0
     /\ Tagging \/ Done
     /\ Done => /\ \A j \in 1..3 : Queried(ExpectedNames[j])
                /\ VersionOutputs \subseteq outputs
                /\ <<"version", Canon(version.major, version.minor, 0)>> \in outputs

\* release/v1 with v1.0.0 in the repository and a failed listing: the run
\* ends with the version 1.0.0 and the three tags on its commit.
C17_Witness ==
  /\ Done
  /\ ListFailed
  /\ inp.ref = RefV1
  /\ V1x0x0 \in DOMAIN store0
  /\ ListWarning \in warnings
  /\ failedMsg = ""
  /\ <<"version", <<"1", ".", "0", ".", "0">>>> \in outputs
  /\ <<"tags", <<"v", "1", ",", "v", "1", ".", "0", ",",
                 "v", "1", ".", "0", ".", "0">>>> \in outputs

C19_PatchQueryErrorFailsRun ==
  (/\ Done
   /\ CreateTags(inp)
   /\ version # Null
   /\ GetRefFailedOn(ExpectedNames[3]))
  => failedMsg # ""

CreatedIn(cs, tag) ==
  \E j \in 1..Len(cs) : cs[j].op = "createRef" /\ cs[j].tag = tag /\ cs[j].ok
MovedIn(cs, tag) ==
  \E j \in 1..Len(cs) : cs[j].op = "updateRef" /\ cs[j].tag = tag /\ cs[j].ok
ListedOkIn(cs) ==
  \E j \in 1..Len(cs) : cs[j].op = "listTags" /\ cs[j].ok

(***************************************************************************)
(* C21.  Two runs on different commits of the same release branch that     *)
(* overlap and resolve the same patch from their listings: when both have  *)
(* ended, exactly one of them has created the patch tag, the patch tag     *)
(* operation of the other is reported as failed, and no updateRef has      *)
(* moved the patch tag.                                                    *)
(* In the code the run whose getRef comes after the createRef of the other *)
(* run finds the tag and moves it with a forced updateRef.                 *)
(***************************************************************************)
C21_ConcurrentPatchCreatedOnce ==
  (/\ pc = "done"
   /\ peer.pc = "done"
   /\ version # Null
   /\ peer.version = version
   /\ sha # peer.sha
   /\ ListedOkIn(calls)
   /\ ListedOkIn(peer.calls))
  => /\ ~MovedIn(calls, ExpectedNames[3])
     /\ ~MovedIn(peer.calls, ExpectedNames[3])
     /\ CreatedIn(calls, ExpectedNames[3]) # CreatedIn(peer.calls, ExpectedNames[3])
     /\ CreatedIn(calls, ExpectedNames[3]) => InSeq(ExpectedNames[3], peer.errors)
     /\ CreatedIn(peer.calls, ExpectedNames[3]) => InSeq(ExpectedNames[3], errors)

(***************************************************************************)
(* C22.  A run makes at most three createRef or updateRef calls, at most   *)
(* one for each of its three tags, in the order major, minor, patch; a     *)
(* call that failed is not made again.                                     *)
(***************************************************************************)
IsMutation(c) == c.op \in {"createRef", "updateRef"}
MutationCalls == SelectSeq(calls, IsMutation)
PositionOf(tag) == CHOOSE j \in 1..3 : ExpectedNames[j] = tag

C22_AtMostOneMutationPerTagInOrder ==
  (version # Null /\ (Tagging \/ Done))
  => /\ Len(MutationCalls) <= 3
     /\ \A a \in 1..Len(MutationCalls) : InSeq(MutationCalls[a].tag, ExpectedNames)
     /\ \A a \in 1..Len(MutationCalls), b \in 1..Len(MutationCalls) :
          a < b => PositionOf(MutationCalls[a].tag) < PositionOf(MutationCalls[b].tag)

\* On release/v1 with the tag v1.0.4 in the repository the creation of v1
\* fails: v1.0 and v1.0.5 follow, v1 is not tried again.
C22_Witness ==
  /\ Done
  /\ inp.ref = RefV1
  /\ inp.tagPrefix = <<>>
  /\ Len(MutationCalls) = 3
  /\ MutationCalls[1].tag = V1 /\ ~MutationCalls[1].ok
  /\ MutationCalls[2].tag = V1x0 /\ MutationCalls[2].ok
  /\ MutationCalls[3].tag = <<"v", "1", ".", "0", ".", "5">> /\ MutationCalls[3].ok

(***************************************************************************)
(* C23.  A run that ends with a resolution error ("Could not read version  *)
(* from package.json" or "Could not determine version from any source";    *)
(* the code has no version-mismatch error) has made no createRef and no    *)
(* updateRef call and has set no output: the tags of the repository are as *)
(* they were when the run started.                                         *)
(***************************************************************************)
ResolutionErrors == {ManifestUnreadableMsg, NoVersionSourceMsg}

C23_FailedResolutionChangesNothing ==
  failedMsg \in ResolutionErrors
  => /\ Done
     /\ Mutations = {}
     /\ outputs = {}
     /\ store = store0

\* package.json mode with a token and tag creation on, package.json without
\* a version field, tags in the repository: nothing is called.
C23_Witness ==
  /\ Done
  /\ ManifestMode
  /\ CreateTags(inp)
  /\ inp.token # ""
  /\ inp.manifest = Manifest(<<>>)
  /\ failedMsg = ManifestUnreadableMsg
  /\ DOMAIN store0 # {}
  /\ store = store0
  /\ calls = <<>>
  /\ outputs = {}

(***************************************************************************)
(* C24.  When the listing succeeded, the resolved patch is one more than   *)
(* the largest P for which the tag named exactly prefix + major.minor.P    *)
(* is in the repository, and 0 when there is none: tags of another major   *)
(* or minor, of another prefix, or with text before or after the version   *)
(* do not count.                                                           *)
(***************************************************************************)
C24_OnlyExactPatchTagsCount ==
  (ListedOkIn(calls) /\ version # Null)
  => version.patch =
       NextUnusedPatch(store0, EffectivePrefix, version.major, version.minor)

\* On release/v1.2 with v1.1.0, v1.1.1, v1.20.5, v11.2.9, xv1.2.3, v1.2.3-rc,
\* v1.2.3.4 and 1.2.6 in the repository and no v1.2.<digits>: 1.2.0.
C24_Witness ==
  /\ Done
  /\ ListedOkIn(calls)
  /\ inp.ref = RefV1x2
  /\ inp.tagPrefix = <<>>
  /\ OtherTags \subseteq DOMAIN store0
  /\ TagOf(<<"v">>, 1, 1, 1) \in DOMAIN store0
  /\ ExistingPatches(store0, <<"v">>, 1, 2) = {}
  /\ version = [major |-> 1, minor |-> 2, patch |-> 0]

(***************************************************************************)
(* C25.  listTags is called only in auto mode when package.json gave no    *)
(* version, never in manual mode, never in package.json mode, never in     *)
(* auto mode with a version from package.json; a run calls it at most      *)
(* once.                                                                   *)
(***************************************************************************)
IsListTags(c) == c.op = "listTags"
ListCalls == SelectSeq(calls, IsListTags)

C25_ListOnlyOnAutoIncrement ==
  /\ Len(ListCalls) <= 1
  /\ pc = "listTags" => ListCalls = <<>>
  /\ (pc = "listTags" \/ Listed) => (AutoMode /\ ~ManifestSupplies)

\* Manual mode, version 1.0.0 with patch 0, tags created: no listing.
C25_Witness ==
  /\ Done
  /\ ManualMode
  /\ CreateTags(inp)
  /\ version = [major |-> 1, minor |-> 0, patch |-> 0]
  /\ Mutations # {}
  /\ ~Listed

(***************************************************************************)
(* C26.  A run with create-tags false resolves the version that a run with *)
(* create-tags true (and a token) resolves from the same branch, manifest, *)
(* version source and repository tags.                                     *)
(***************************************************************************)
TaggingTwin(i) == [i EXCEPT !.createTags = "true", !.token = "token"]

\* The version run() resolves from the inputs i when listTags answers with
\* all the tags of st.
ResolvedFrom(i, st) ==
  LET r == Resolve(i)
  IN IF r.to = "list"
     THEN [r.v EXCEPT !.patch = getNextPatchVersion(DOMAIN st, i.tagPrefix,
                                                    r.v.major, r.v.minor)]
     ELSE r.v

C26_VersionIndependentOfCreateTags ==
  (Done /\ ~CreateTags(inp) /\ version # Null)
  => /\ version = ResolvedFrom(TaggingTwin(inp), store0)
     /\ <<"patch-tag", PatchTag(TagPrefix(inp), ResolvedFrom(TaggingTwin(inp), store0))>>
          \in outputs

(***************************************************************************)
(* C27.  A run of the branch-only fallback that creates tags and in which  *)
(* no call fails resolves a patch greater than every patch P whose tag     *)
(* prefix + major.minor.P is in the repository, and creates its patch tag: *)
(* from run to run on the same branch the patch grows.                     *)
(***************************************************************************)
C27_PatchGrowsFromRunToRun ==
  (Done /\ Fallback /\ CreateTags(inp) /\ NoCallFailed /\ version # Null
   /\ inp.ref \in {RefV1, RefV1x2})
  => /\ \A P \in 0..PerPage :
          TagOf(EffectivePrefix, version.major, version.minor, P) \in DOMAIN store0
            => P < version.patch
     /\ OpsOn(ExpectedNames[3]) = {"createRef"}

(***************************************************************************)
(* C28.  When listTags succeeded, the patch tag of the resolved version is *)
(* not among the tags the repository had when the run started, however     *)
(* many tags it holds.                                                     *)
(***************************************************************************)
C28_ResolvedPatchTagIsNew ==
  (ListedOkIn(calls) /\ version # Null /\ pc # "listTags")
  => ExpectedNames[3] \notin DOMAIN store0

(***************************************************************************)
(* C29.  A run changes only the three tags of its resolved version: every  *)
(* tag the repository had when the run started is still there, every tag   *)
(* that is new or on another commit than at the start is one of the three  *)
(* tags of the version and is on the commit of the run.                    *)
(***************************************************************************)
C29_OnlyTargetTagsChange ==
  pc # "idle"
  => /\ DOMAIN store0 \subseteq DOMAIN store
     /\ \A t \in DOMAIN store :
          (t \notin DOMAIN store0 \/ store[t] # store0[t])
            => /\ version # Null
               /\ InSeq(t, ExpectedNames)
               /\ store[t] = sha

\* On release/v1.2 in a repository with v1, v1.2, v1.2.1 and twenty other
\* tags: v1 and v1.2 are moved, v1.2.2 is created, the others stay.
C29_Witness ==
  /\ Done
  /\ inp.ref = RefV1x2
  /\ inp.tagPrefix = <<>>
  /\ version = [major |-> 1, minor |-> 2, patch |-> 2]
  /\ OtherTags \cup PatchTags \subseteq DOMAIN store0
  /\ \A t \in OtherTags \cup PatchTags : store[t] = store0[t]
  /\ ExpectedNames[3] \notin DOMAIN store0
  /\ \A j \in 1..3 : ExpectedNames[j] \in DOMAIN store /\ store[ExpectedNames[j]] = sha

(***************************************************************************)
(* C30.  A run that has ended is in exactly one of three outcomes: skipped *)
(* (not on a release branch, no output, not failed), failed (setFailed     *)
(* called, no output) or completed (the five outputs version, tags,        *)
(* major-tag, minor-tag and patch-tag set, not failed); no run has both an *)
(* output and a failure, whatever the remote calls answer; and every run   *)
(* that has started ends: again and again no run is in progress.           *)
(***************************************************************************)
OutputNames == {"version", "tags", "major-tag", "minor-tag", "patch-tag"}
Skipped == ~OnReleaseBranch /\ warnings = {SkipMsg} /\ outputs = {} /\ failedMsg = ""
FailedRun == failedMsg # "" /\ outputs = {}
Completed ==
  /\ failedMsg = ""
  /\ {o[1] : o \in outputs} = OutputNames
  /\ Cardinality(outputs) = 5
Running == pc \notin {"idle", "done"}

OneOutcome ==
  /\ ~(outputs # {} /\ failedMsg # "")
  /\ Done => Cardinality({o \in {"skipped", "failed", "completed"} :
                            \/ o = "skipped" /\ Skipped
                            \/ o = "failed" /\ FailedRun
                            \/ o = "completed" /\ Completed}) = 1
  /\ Running => outputs = {} /\ failedMsg = ""

C30_EveryRunEndsInOneOutcome ==
  OneOutcome /\ [][OneOutcome']_vars /\ []<>(~Running)

\* A run that listed the tags and in which a createRef or updateRef was
\* rejected ends completed, after seven calls.
C30_Witness ==
  /\ Done
  /\ Completed
  /\ Listed
  /\ \E j \in Mutations : ~calls[j].ok
  /\ Len(calls) = 7

====
